---- MODULE Spec2Model ----
(***************************************************************************)
(* A model of src/index.ts: the bounded batch fetcher                      *)
(* makeConcurrentHttpsReqs, the two io-ts codecs that validate the API's   *)
(* responses, and the entry points that use them.                          *)
(*                                                                         *)
(* Strings that the program cuts at "/" (request targets, URLs, the txt    *)
(* field) are modelled as the sequence of their "/"-separated segments:    *)
(* "api/books/a/" is <<"api", "books", "a", "">>.  Template literals are   *)
(* concatenations of such sequences and split('/') reads the segments.     *)
(*                                                                         *)
(* JSON values are tagged records [kind |-> ..., v |-> ...]; an object's v *)
(* is a function from the keys it has to their values.                     *)
(***************************************************************************)
EXTENDS Integers, Sequences, FiniteSets, TLC

\* ------------------------------------------------------------------ bounds

\* Most works the author's list names.
MaxSlugs == 2

\* How often the program is started.
MaxRuns == 2

\* Longest target list handed to makeConcurrentHttpsReqs by the harness.
MaxLen == 5

\* Largest concurrency the harness draws.
MaxConcurrency == 2

\* ------------------------------------------------------------- JSON values

Str(s) == <<s>>

JString(s) == [kind |-> "string", v |-> s]

JNumber(n) == [kind |-> "number", v |-> n]

JArray(a) == [kind |-> "array", v |-> a]

JObject(o) == [kind |-> "object", v |-> o]

JNull == [kind |-> "null"]

Undefined == [kind |-> "undefined"]

\* u[k] of JavaScript: undefined unless u is an object that has the key
Get(u, k) == IF u.kind = "object" /\ k \in DOMAIN u.v THEN u.v[k] ELSE Undefined

\* `${u}` of JavaScript, as segments: a string is itself, undefined and null
\* are spelled out, a one-digit number is its digit
TemplateString(u) ==
    CASE u.kind = "string"    -> u.v
      [] u.kind = "undefined" -> Str("undefined")
      [] u.kind = "null"      -> Str("null")
      [] u.kind = "number"    -> Str(<<"0", "1", "2", "3", "4", "5", "6", "7", "8", "9">>[u.v + 1])
      [] u.kind = "object"    -> Str("[object Object]")
      [] u.kind = "array"     -> Str("")

\* ------------------------------------------------------------------ config

config == [textsLang |-> Str("pol"),
           textsAuthor |-> Str("adam-mickiewicz"),
           reqConcurrency |-> 10,
           apiBaseUrl |-> <<"https:", "", "wolnelektury.pl", "api">>]

\* ------------------------------------------------------------------- io-ts

Left == [_tag |-> "Left"]

Right(a) == [_tag |-> "Right", right |-> a]

IsRight(e) == e._tag = "Right"

\* t.string
StringCodec(u) == IF u.kind = "string" THEN Right(u) ELSE Left

\* t.literal(value)
LiteralCodec(u, value) ==
    IF u.kind = "string" /\ u.v = value THEN Right(u) ELSE Left

\* t.array(t.string): every element is decoded, the array is rebuilt
ArrayOfStringCodec(u) ==
    IF u.kind = "array" /\ \A k \in DOMAIN u.v : IsRight(StringCodec(u.v[k]))
    THEN Right(JArray([k \in DOMAIN u.v |-> StringCodec(u.v[k]).right]))
    ELSE Left

\* TextsDataCodec without the check of slug: any array of objects decodes
TextsDataCodec_AnyObjects(u) ==
    IF u.kind = "array" /\ \A k \in DOMAIN u.v : u.v[k].kind = "object"
    THEN Right(u)
    ELSE Left

\* TextsDataCodec = t.array(t.type({ slug: t.string }))
TextsDataCodec(u) ==
    IF /\ u.kind = "array"
       /\ \A k \in DOMAIN u.v :
            /\ u.v[k].kind = "object"
            /\ IsRight(StringCodec(Get(u.v[k], "slug")))
    THEN Right(JArray([k \in DOMAIN u.v |->
            JObject([f \in DOMAIN u.v[k].v |->
                IF f = "slug" THEN StringCodec(u.v[k].v[f]).right
                ELSE u.v[k].v[f]])]))
    ELSE Left

\* ChildrenCodec without the refinement: any array of strings decodes
ChildrenCodec_Unrefined(u) == ArrayOfStringCodec(u)

\* t.refinement(t.array(t.string), (children) => children.length === 0)
ChildrenCodec(u) ==
    LET a == ArrayOfStringCodec(u)
    IN  IF IsRight(a) /\ Len(a.right.v) = 0 THEN a ELSE Left

\* TextDetailCodec = t.type({ language, children, txt }): every property is
\* decoded; one failure rejects the value; other keys are carried over
TextDetailCodec(u) ==
    IF u.kind # "object" THEN Left
    ELSE LET language == LiteralCodec(Get(u, "language"), config.textsLang)
             children == ChildrenCodec(Get(u, "children"))
             txt      == StringCodec(Get(u, "txt"))
         IN  IF IsRight(language) /\ IsRight(children) /\ IsRight(txt)
             THEN Right(JObject([f \in DOMAIN u.v |->
                     CASE f = "language" -> language.right
                       [] f = "children" -> children.right
                       [] f = "txt"      -> txt.right
                       [] OTHER          -> u.v[f]]))
             ELSE Left

\* ------------------------------------------------------------------- state

VARIABLES
    \* makeConcurrentHttpsReqs: parameters, locals, position
    urls, concurrency, processData, updateProgress, formatUrl,
    i, urlBatch, promises, reqResults, final, pc, ret,
    \* the requests the call has issued, in issue order
    req,
    \* the slices the loop has taken, as positions of urls
    batches,
    \* the amounts handed to the progress callback
    progress,
    \* how often the reduction function has run in this call
    reduceCalls,
    \* whether a request settled while an earlier one of its batch was pending
    outOfOrder,
    \* the file system: the file writes started, the files of output/raw
    writes, files, dirExists,
    \* the entry point: which one, which run, where it is, its list request
    entry, run, mpc, listReq,
    \* the codec harness: the value handed to the codec and what it gave
    value, decoded,
    \* the run: whether output/raw existed when it started, how the run
    \* before it ended
    existed, prev,
    \* which definition of makeConcurrentHttpsReqs is called: 1 is that of
    \* lines 103-135, 2 that of lines 298-327 (no updateProgress parameter)
    variant

fetchVars == <<urls, concurrency, processData, updateProgress, formatUrl,
               i, urlBatch, promises, reqResults, final, pc, ret, req,
               batches, progress, reduceCalls, outOfOrder>>

fsVars == <<writes, files, dirExists>>

mainVars == <<entry, run, mpc, listReq>>

codecVars == <<value, decoded>>

runVars == <<existed, prev>>

vars == <<fetchVars, fsVars, mainVars, codecVars, runVars, variant>>

Min(a, b) == IF a < b THEN a ELSE b

\* Array.prototype.slice(start, end) for 0 <= start <= end
Slice(s, start, end) == SubSeq(s, start + 1, Min(end, Len(s)))

\* url.split('/').pop()
Pop(segments) == segments[Len(segments)]

\* ------------------------------------------------- the reduction functions

\* (slug) => `${config.apiBaseUrl}/books/${slug}/`
FormatBookUrl(slug) ==
    JString(config.apiBaseUrl \o <<"books">> \o TemplateString(slug) \o <<"">>)

\* (slug) => `https://example.com/api/${slug}/`
FormatExampleUrl(slug) ==
    JString(<<"https:", "", "example.com", "api">> \o TemplateString(slug) \o <<"">>)

\* formatUrl ? formatUrl(url) : url
RequestUrl(fu, url) ==
    IF fu = "book" THEN FormatBookUrl(url)
    ELSE IF fu = "example" THEN FormatExampleUrl(url)
    ELSE url

\* FilterCollections without the test of the decoding's tag
FilterCollections_Unchecked(st, currRes) ==
    [st EXCEPT !.acc = Append(@, Get(currRes.data, "txt"))]

\* the reducer of the filtering call: the txt of a response that decodes
FilterCollections(st, currRes) ==
    LET textsDetailResult == TextDetailCodec(currRes.data)
    IN  [st EXCEPT !.acc = IF textsDetailResult._tag = "Right"
                           THEN Append(@, Get(textsDetailResult.right, "txt"))
                           ELSE @]

\* the reducer of the download call: starts the write of the body to the
\* file named by the URL's last segment and collects its promise
WriteText(st, currRes) ==
    LET url  == currRes.config.url
        text == currRes.data
        file == [name |-> Pop(url.v), data |-> text, status |-> "pending"]
    IN  [st EXCEPT !.writes = Append(@, file),
                   !.acc = Append(@, [kind |-> "promise", v |-> Len(st.writes) + 1])]

\* processData(acc, reqResult)
ProcessData(pd, st, currRes) ==
    LET out == CASE pd = "filter" -> FilterCollections(st, currRes)
                 [] pd = "write"  -> WriteText(st, currRes)
    IN  [out EXCEPT !.calls = @ + 1]

RECURSIVE Reduce(_, _, _)
\* reqResults.reduce((acc, reqResult) => processData(acc, reqResult), [])
Reduce(pd, results, st) ==
    IF results = <<>> THEN st
    ELSE Reduce(pd, Tail(results), ProcessData(pd, st, Head(results)))

\* lines 128-132: the accumulator the call returns, with the writes the
\* reduction function started and the number of times it ran
Fold(pd, results, w) ==
    IF pd # "none"
    THEN Reduce(pd, results, [acc |-> <<>>, writes |-> w, calls |-> 0])
    ELSE [acc |-> [k \in 1..Len(results) |-> results[k].data],
          writes |-> w, calls |-> 0]

\* LoopState as a loop that folds the responses it has would have it
LoopState_Eager(pd, results, w) == Fold(pd, results, w)

\* lines 110-126: while the loop runs final is the empty array it was
\* declared as; the reduction function has not run and started no write
LoopState(pd, results, w) == [acc |-> <<>>, writes |-> w, calls |-> 0]

\* ------------------------------------------------- makeConcurrentHttpsReqs

NoReturn == [kind |-> "none"]

\* axios.get(url, { timeout: 10000 }): a request in flight; pos is the
\* position in urls of the target it was made for
AxiosGet(url, pos) ==
    [pos |-> pos, url |-> url, status |-> "pending",
     data |-> Undefined, error |-> "none"]

\* what a fulfilled request gives: the axios response object
Response(r) == [config |-> [url |-> r.url], data |-> r.data]

\* UrlBatch with the end of the slice one too far
UrlBatch_Wide(u, idx, c) == Slice(u, idx, idx + c + 1)

\* UrlBatch with the end of the slice one too near
UrlBatch_Narrow(u, idx, c) == Slice(u, idx, idx + c - 1)

\* urls.slice(i, i + concurrency)
UrlBatch(u, idx, c) == Slice(u, idx, idx + c)

\* PromiseAll with the responses in the opposite order
PromiseAll_Reversed(ps, rq) ==
    [k \in 1..Len(ps) |-> Response(rq[ps[Len(ps) + 1 - k]])]

\* Promise.all of the batch, fulfilled: the responses in the order of the
\* promises handed to it
PromiseAll(ps, rq) == [k \in 1..Len(ps) |-> Response(rq[ps[k]])]

\* NextIndex stepping one too far
NextIndex_Skip(idx, c) == idx + c + 1

\* i += concurrency
NextIndex(idx, c) == idx + c

\* LoopTest with <= for <
LoopTest_Inclusive(idx, u) == idx <= Len(u)

\* i < urls.length
LoopTest(idx, u) == idx < Len(u)

\* Report with the concurrency for the batch's length
Report_Concurrency(up, prog, batch) ==
    IF up THEN Append(prog, concurrency) ELSE prog

\* if (updateProgress) updateProgress(urlBatch.length)
Report(up, prog, batch) == IF up THEN Append(prog, Len(batch)) ELSE prog

\* AllFulfilled as Promise.any would have it: one fulfilled promise is enough
AllFulfilled_Any(ps, rq) == \E k \in DOMAIN ps : rq[ps[k]].status = "fulfilled"

\* AllFulfilled as Promise.allSettled would have it: rejections count
AllFulfilled_Settled(ps, rq) == \A k \in DOMAIN ps : rq[ps[k]].status # "pending"

\* AllFulfilled as awaiting the first promise alone would have it
AllFulfilled_First(ps, rq) == rq[ps[1]].status = "fulfilled"

\* Promise.all of the batch is fulfilled when every promise is
AllFulfilled(ps, rq) == \A k \in DOMAIN ps : rq[ps[k]].status = "fulfilled"

\* Promise.all of the batch is rejected as soon as one promise is
SomeRejected(ps, rq) == \E k \in DOMAIN ps : rq[ps[k]].status = "rejected"

\* The loop from its test at index idx, with the responses collected so far:
\* either the next batch is issued and the call waits for it, or the loop is
\* over, the responses are folded and the call returns.
Iterate(u, c, pd, fu, idx, results, rq, bt) ==
    /\ i' = idx
    /\ reqResults' = results
    /\ IF LoopTest(idx, u)
       THEN LET batch == UrlBatch(u, idx, c)
            IN  /\ urlBatch' = batch
                /\ req' = rq \o [k \in 1..Len(batch) |->
                                    AxiosGet(RequestUrl(fu, batch[k]), idx + k)]
                /\ promises' = [k \in 1..Len(batch) |-> Len(rq) + k]
                /\ batches' = Append(bt, [k \in 1..Len(batch) |-> idx + k])
                /\ pc' = "await"
                /\ ret' = NoReturn
                /\ LET st == LoopState(pd, results, writes)
                   IN  /\ final' = st.acc
                       /\ writes' = st.writes
                       /\ reduceCalls' = st.calls
       ELSE LET st == Fold(pd, results, writes)
            IN  /\ final' = st.acc
                /\ writes' = st.writes
                /\ reduceCalls' = st.calls
                /\ ret' = [kind |-> "return", v |-> st.acc]
                /\ pc' = "done"
                /\ urlBatch' = <<>>
                /\ promises' = <<>>
                /\ req' = rq
                /\ batches' = bt

\* The call, up to its first await.
makeConcurrentHttpsReqs(u, c, pd, up, fu) ==
    /\ urls' = u
    /\ concurrency' = c
    /\ processData' = pd
    /\ updateProgress' = up
    /\ formatUrl' = fu
    /\ progress' = <<>>
    /\ outOfOrder' = FALSE
    /\ Iterate(u, c, pd, fu, 0, <<>>, <<>>, <<>>)

\* What the transport reports for a request that does not succeed: a
\* network error, a status outside 2xx, the timeout of the request.
RequestErrors == {"ERR_NETWORK", "ERR_BAD_RESPONSE", "ECONNABORTED"}

\* How a request can settle, the server answering with one of bodies.
Outcomes(bodies) ==
    {[status |-> "fulfilled", data |-> b, error |-> "none"] : b \in bodies}
    \cup {[status |-> "rejected", data |-> Undefined, error |-> e] : e \in RequestErrors}

IsPrefix(p, s) == Len(p) <= Len(s) /\ SubSeq(s, 1, Len(p)) = p

\* The server: a URL under the API's base URL is answered with a detail
\* object, any other with a text
Serve(url, details, texts) ==
    IF IsPrefix(config.apiBaseUrl, url.v) THEN details ELSE texts

\* One request in flight settles.
SettleRequest(details, texts) ==
    \E k \in DOMAIN req : \E o \in Outcomes(Serve(req[k].url, details, texts)) :
        /\ req[k].status = "pending"
        /\ req' = [req EXCEPT ![k] = [@ EXCEPT !.status = o.status,
                                               !.data = o.data,
                                               !.error = o.error]]
        /\ outOfOrder' = (outOfOrder \/ \E j \in DOMAIN req :
                            j < k /\ req[j].status = "pending")
        /\ UNCHANGED <<urls, concurrency, processData, updateProgress, formatUrl,
                       i, urlBatch, promises, reqResults, final, pc, ret,
                       batches, progress, reduceCalls>>
        /\ UNCHANGED <<fsVars, mainVars, codecVars, runVars, variant>>

\* lines 119-126: every request of the batch is fulfilled; the responses are
\* pushed, progress is reported, and the loop goes on at i + concurrency.
BatchFulfilled ==
    /\ pc = "await"
    /\ AllFulfilled(promises, req)
    /\ progress' = Report(updateProgress, progress, urlBatch)
    /\ Iterate(urls, concurrency, processData, formatUrl,
               NextIndex(i, concurrency),
               reqResults \o PromiseAll(promises, req), req, batches)
    /\ UNCHANGED <<urls, concurrency, processData, updateProgress, formatUrl,
                   outOfOrder>>
    /\ UNCHANGED <<files, dirExists, mainVars, codecVars, runVars, variant>>

\* BatchRejected as a loop that tries a failed batch again would have it
BatchRejected_Retry ==
    /\ pc = "await"
    /\ SomeRejected(promises, req)
    /\ Iterate(urls, concurrency, processData, formatUrl, i, reqResults, req,
               batches)
    /\ UNCHANGED <<urls, concurrency, processData, updateProgress, formatUrl,
                   progress, outOfOrder>>
    /\ UNCHANGED <<files, dirExists, mainVars, codecVars, runVars, variant>>

\* BatchRejected as a loop reporting progress in a finally block would
\* have it: the failing batch is reported too
BatchRejected_Reports ==
    /\ pc = "await"
    /\ SomeRejected(promises, req)
    /\ pc' = "failed"
    /\ ret' = [kind |-> "throw"]
    /\ progress' = Report(updateProgress, progress, urlBatch)
    /\ UNCHANGED <<urls, concurrency, processData, updateProgress, formatUrl,
                   i, urlBatch, promises, reqResults, final, req,
                   batches, reduceCalls, outOfOrder>>
    /\ UNCHANGED <<fsVars, mainVars, codecVars, runVars, variant>>

\* lines 120-122: a request of the batch is rejected; Promise.all rejects
\* and the await throws out of the call.
BatchRejected ==
    /\ pc = "await"
    /\ SomeRejected(promises, req)
    /\ pc' = "failed"
    /\ ret' = [kind |-> "throw"]
    /\ UNCHANGED <<urls, concurrency, processData, updateProgress, formatUrl,
                   i, urlBatch, promises, reqResults, final, req,
                   batches, progress, reduceCalls, outOfOrder>>
    /\ UNCHANGED <<fsVars, mainVars, codecVars, runVars, variant>>

\* ------------------------------------------- the fetcher called on its own

Names == <<"a", "b", "c">>

\* A target list of every length up to MaxLen: a, b, c and again a, b, ...
\* (so that a list of more than three repeats a target).
TargetLists ==
    {[k \in 1..n |-> JString(Str(Names[((k - 1) % Len(Names)) + 1]))] :
        n \in 0..MaxLen}

\* A work-detail object as the API serves it
Detail(language, children, txt) ==
    JObject([language |-> JString(Str(language)),
             children |-> JArray(children),
             txt |-> JString(<<"media", txt>>)])

\* What the server answers in the harness: two single works and a collection
HarnessBodies ==
    {Detail("pol", <<>>, "X.txt"),
     Detail("pol", <<>>, "Z.txt"),
     Detail("pol", <<JString(Str("child"))>>, "Y.txt")}

NoDecode == [_tag |-> "none"]

NoRequest == [status |-> "none", data |-> Undefined, error |-> "none"]

Init ==
    /\ urls \in TargetLists
    /\ concurrency \in 1..MaxConcurrency
    /\ processData \in {"none", "filter"}
    /\ updateProgress \in BOOLEAN
    /\ formatUrl \in {"none", "book"}
    /\ i = 0
    /\ urlBatch = <<>>
    /\ promises = <<>>
    /\ reqResults = <<>>
    /\ final = <<>>
    /\ pc = "idle"
    /\ ret = NoReturn
    /\ req = <<>>
    /\ batches = <<>>
    /\ progress = <<>>
    /\ reduceCalls = 0
    /\ outOfOrder = FALSE
    /\ writes = <<>>
    /\ files = <<>>
    /\ dirExists = FALSE
    /\ entry = 0
    /\ run = 0
    /\ mpc = "none"
    /\ listReq = NoRequest
    /\ existed = FALSE
    /\ prev = "none"
    /\ variant = 1
    /\ value = Undefined
    /\ decoded = NoDecode

\* The harness calls the function with the arguments Init drew.
Call ==
    /\ pc = "idle"
    /\ makeConcurrentHttpsReqs(urls, concurrency, processData, updateProgress,
                               formatUrl)
    /\ UNCHANGED <<files, dirExists, mainVars, codecVars, runVars, variant>>

\* In the harness every URL is answered with a detail object.
Settle == SettleRequest(HarnessBodies, HarnessBodies)

Next == Call \/ Settle \/ BatchFulfilled \/ BatchRejected

Spec == Init /\ [][Next]_vars

\* ------------------------------------------------ the call run to its end
\* The call is made, every request issued settles in the end (by its
\* answer, an error, or the timeout of line 120), and a continuation that
\* can run is run.

InitLive ==
    /\ urls \in TargetLists
    /\ concurrency \in 1..MaxConcurrency
    /\ processData = "none"
    /\ updateProgress \in BOOLEAN
    /\ formatUrl = "none"
    /\ i = 0
    /\ urlBatch = <<>>
    /\ promises = <<>>
    /\ reqResults = <<>>
    /\ final = <<>>
    /\ pc = "idle"
    /\ ret = NoReturn
    /\ req = <<>>
    /\ batches = <<>>
    /\ progress = <<>>
    /\ reduceCalls = 0
    /\ outOfOrder = FALSE
    /\ writes = <<>>
    /\ files = <<>>
    /\ dirExists = FALSE
    /\ entry = 0
    /\ run = 0
    /\ mpc = "none"
    /\ listReq = NoRequest
    /\ existed = FALSE
    /\ prev = "none"
    /\ variant = 1
    /\ value = Undefined
    /\ decoded = NoDecode

SpecLive ==
    /\ InitLive
    /\ [][Next]_vars
    /\ WF_vars(Call)
    /\ WF_vars(Settle)
    /\ WF_vars(BatchFulfilled)
    /\ WF_vars(BatchRejected)

\* --------------------------------------- the calls with a reduction function
\* lines 168-186 and 194-211: the fetcher called with one of the two
\* reduction functions of main, the targets requested as they are.

InitReduce ==
    /\ urls \in TargetLists
    /\ concurrency \in 1..MaxConcurrency
    /\ processData \in {"filter", "write"}
    /\ updateProgress = FALSE
    /\ formatUrl = "none"
    /\ i = 0
    /\ urlBatch = <<>>
    /\ promises = <<>>
    /\ reqResults = <<>>
    /\ final = <<>>
    /\ pc = "idle"
    /\ ret = NoReturn
    /\ req = <<>>
    /\ batches = <<>>
    /\ progress = <<>>
    /\ reduceCalls = 0
    /\ outOfOrder = FALSE
    /\ writes = <<>>
    /\ files = <<>>
    /\ dirExists = FALSE
    /\ entry = 0
    /\ run = 0
    /\ mpc = "none"
    /\ listReq = NoRequest
    /\ existed = FALSE
    /\ prev = "none"
    /\ variant = 1
    /\ value = Undefined
    /\ decoded = NoDecode

SpecReduce == InitReduce /\ [][Next]_vars

\* ------------------------------------------- the call of the documentation
\* lines 56-62 and 259-264: the first @example of both definitions,
\*   makeConcurrentHttpsReqs(slugs, 5, undefined, (slug) => `https://example.com/api/${slug}/`)

DocConcurrency == 5

\* The arguments of the example after urls and concurrency, by position
DocArguments == <<"none", "example">>

\* The argument at position k, undefined when the caller gave fewer
Argument(args, k) == IF k <= Len(args) THEN args[k] ELSE "none"

\* The parameters after urls and concurrency: lines 106-108 declare
\* processData, updateProgress, formatUrl; lines 301-302 declare processData,
\* formatUrl. An argument is bound to the parameter at its position.
ProcessDataOf(v, args) == Argument(args, 1)

\* if (updateProgress): any function given at its position is called
UpdateProgressOf(v, args) == v = 1 /\ Argument(args, 2) # "none"

FormatUrlOf(v, args) == IF v = 1 THEN Argument(args, 3) ELSE Argument(args, 2)

\* The slugs of the example: the lists without a repeated target
DocTargets == {t \in TargetLists : Len(t) <= Len(Names)}

InitDoc ==
    /\ urls \in DocTargets
    /\ concurrency = DocConcurrency
    /\ processData = "none"
    /\ updateProgress = FALSE
    /\ formatUrl = "none"
    /\ i = 0
    /\ urlBatch = <<>>
    /\ promises = <<>>
    /\ reqResults = <<>>
    /\ final = <<>>
    /\ pc = "idle"
    /\ ret = NoReturn
    /\ req = <<>>
    /\ batches = <<>>
    /\ progress = <<>>
    /\ reduceCalls = 0
    /\ outOfOrder = FALSE
    /\ writes = <<>>
    /\ files = <<>>
    /\ dirExists = FALSE
    /\ entry = 0
    /\ run = 0
    /\ mpc = "none"
    /\ listReq = NoRequest
    /\ existed = FALSE
    /\ prev = "none"
    /\ variant \in {1, 2}
    /\ value = Undefined
    /\ decoded = NoDecode

\* The call of the example, made of the definition `variant`.
CallExample ==
    /\ pc = "idle"
    /\ makeConcurrentHttpsReqs(urls, DocConcurrency,
                               ProcessDataOf(variant, DocArguments),
                               UpdateProgressOf(variant, DocArguments),
                               FormatUrlOf(variant, DocArguments))
    /\ UNCHANGED <<files, dirExists, mainVars, codecVars, runVars, variant>>

NextDoc == CallExample \/ Settle \/ BatchFulfilled \/ BatchRejected

SpecDoc == InitDoc /\ [][NextDoc]_vars

\* ------------------------------------------------------- the entry points
\* entry 1: lines 137-216 (with the progress bar); entry 2: lines 329-390
\* (without); entry 3: lines 406-429 (lists the slugs only).

\* An entry of the author's works list
Work(slug) == JObject([slug |-> JString(Str(slug))])

\* What the server answers to the list request: lists of up to MaxSlugs
\* works, and answers the codec must refuse
ListBodies ==
    {JArray([k \in 1..n |-> Work(Names[((k - 1) % Len(Names)) + 1])]) : n \in 0..MaxSlugs}
    \cup {JArray(<<JObject([slug |-> JString(Str("a")), title |-> JString(Str("A"))])>>),
          JArray(<<Work("a"), JObject([title |-> JString(Str("B"))])>>),
          JArray(<<JObject([slug |-> JNumber(5)])>>),
          JArray(<<Work("a"), JString(Str("b"))>>),
          JObject([slug |-> JString(Str("a"))]),
          JNull}

\* What the server answers to a download: the text of a work
TextBodies == {JString(Str("Litwo! Ojczyzno moja!")), JString(Str("Ciemno wszedzie"))}

\* What the server answers to a detail request: besides the harness's
\* answers, a work in another language, and a single
\* work whose text is kept under another directory with the file name X.txt
DetailBodies ==
    HarnessBodies
    \cup {Detail("eng", <<>>, "E.txt"),
          JObject([language |-> JString(Str("pol")),
                   children |-> JArray(<<>>),
                   txt |-> JString(<<"mirror", "X.txt">>)])}

Alive == mpc \notin {"idle", "done", "failed"}

\* SkipsRun without the test: the run is never skipped
SkipsRun_Never(e, exists) == FALSE

\* !fs.existsSync(outputRawPath) is false: entries 1 and 2 skip everything
\* when output/raw exists; entry 3 has no such test
SkipsRun(e, exists) == e \in {1, 2} /\ exists

\* Mkdir without the call: the directory is left as it was
Mkdir_Never(e, exists) == exists

\* fs.mkdirSync(outputRawPath, { recursive: true }): after it output/raw
\* exists; entry 3 makes no directory
Mkdir(e, exists) == exists \/ e \in {1, 2}

\* lines 138-152, 330-342, 407-414: the program starts and runs up to its
\* first await: unless output/raw exists it is created and the list of the
\* author's works is requested; entry 3 requests the list in any case.
Start ==
    /\ mpc \in {"idle", "done", "failed"}
    /\ run < MaxRuns
    /\ run' = run + 1
    /\ \E e \in 1..3 :
        /\ entry' = e
        /\ variant' = IF e = 2 THEN 2 ELSE 1
        /\ IF SkipsRun(e, dirExists)
           THEN /\ mpc' = "done"
                /\ listReq' = NoRequest
                /\ UNCHANGED dirExists
           ELSE /\ dirExists' = Mkdir(e, dirExists)
                /\ listReq' = [NoRequest EXCEPT !.status = "pending"]
                /\ mpc' = "awaitList"
    \* a new process: nothing of the last one's memory is left
    /\ urls' = <<>> /\ concurrency' = config.reqConcurrency
    /\ processData' = "none" /\ updateProgress' = FALSE /\ formatUrl' = "none"
    /\ i' = 0 /\ urlBatch' = <<>> /\ promises' = <<>> /\ reqResults' = <<>>
    /\ final' = <<>> /\ pc' = "idle" /\ ret' = NoReturn /\ req' = <<>>
    /\ batches' = <<>> /\ progress' = <<>> /\ reduceCalls' = 0
    /\ outOfOrder' = FALSE /\ writes' = <<>>
    /\ existed' = dirExists
    /\ prev' = mpc
    /\ UNCHANGED <<files, codecVars>>

\* The list request settles (timeout: 5000).
ListSettle ==
    /\ Alive
    /\ listReq.status = "pending"
    /\ \E o \in Outcomes(ListBodies) : listReq' = o
    /\ UNCHANGED <<fetchVars, fsVars, entry, run, mpc, codecVars, runVars, variant>>

\* textsDataResult.right.map((textObj) => textObj.slug)
Slugs(right) == [k \in DOMAIN right.v |-> Get(right.v[k], "slug")]

\* lines 149-186, 339-369, 411-425: the list has arrived; it is decoded, a
\* refused list throws; the slugs are taken and the filtering call is made
\* (entry 3 prints them and is done).
AfterList ==
    /\ mpc = "awaitList"
    /\ listReq.status \in {"fulfilled", "rejected"}
    /\ LET textsDataResult == TextsDataCodec(listReq.data)
       IN  IF listReq.status = "rejected" \/ textsDataResult._tag = "Left"
           THEN /\ mpc' = "failed"
                /\ UNCHANGED <<fetchVars, writes>>
           ELSE IF entry = 3
           THEN /\ mpc' = "done"
                /\ UNCHANGED <<fetchVars, writes>>
           ELSE /\ mpc' = "awaitFilter"
                /\ makeConcurrentHttpsReqs(Slugs(textsDataResult.right),
                        config.reqConcurrency, "filter", entry = 1, "book")
    /\ UNCHANGED <<files, dirExists, entry, run, listReq, codecVars, runVars, variant>>

\* lines 168-211, 354-383: the filtering call is over; its failure is the
\* run's; its result is the list of URLs the download call is made with.
AfterFilter ==
    /\ mpc = "awaitFilter"
    /\ pc \in {"done", "failed"}
    /\ IF pc = "failed"
       THEN /\ mpc' = "failed"
            /\ UNCHANGED <<fetchVars, writes>>
       ELSE /\ mpc' = "awaitDownload"
            /\ makeConcurrentHttpsReqs(ret.v, config.reqConcurrency, "write",
                                       entry = 1, "none")
    /\ UNCHANGED <<files, dirExists, entry, run, listReq, codecVars, runVars, variant>>

\* lines 193-211, 372-383: the download call is over; its failure is the
\* run's; its result is the list of write promises Promise.all waits for.
AfterDownload ==
    /\ mpc = "awaitDownload"
    /\ pc \in {"done", "failed"}
    /\ mpc' = IF pc = "failed" THEN "failed" ELSE "awaitWrites"
    /\ UNCHANGED <<fetchVars, fsVars, entry, run, listReq, codecVars, runVars, variant>>

\* A file write of fsPromises.writeFile ends: the file holds the data, or
\* the write failed.
WriteSettle ==
    /\ Alive
    /\ \E k \in DOMAIN writes, ok \in BOOLEAN :
        /\ writes[k].status = "pending"
        /\ writes' = [writes EXCEPT ![k].status =
                        IF ok THEN "fulfilled" ELSE "rejected"]
        /\ files' = IF ok
                    THEN [f \in DOMAIN files \cup {writes[k].name} |->
                            IF f = writes[k].name THEN writes[k].data ELSE files[f]]
                    ELSE files
    /\ UNCHANGED <<fetchVars, dirExists, mainVars, codecVars, runVars, variant>>

\* lines 193, 211-215, 372, 383-389: Promise.all of the writes settles: all
\* written and the run is done, or one failed and the run fails.
AfterWrites ==
    /\ mpc = "awaitWrites"
    /\ \/ \A k \in DOMAIN final : writes[final[k].v].status = "fulfilled"
       \/ \E k \in DOMAIN final : writes[final[k].v].status = "rejected"
    /\ mpc' = IF \E k \in DOMAIN final : writes[final[k].v].status = "rejected"
              THEN "failed" ELSE "done"
    /\ UNCHANGED <<fetchVars, fsVars, entry, run, listReq, codecVars, runVars, variant>>

\* A request of the running program settles.
MainSettle == Alive /\ SettleRequest(DetailBodies, TextBodies)

MainInit ==
    /\ urls = <<>>
    /\ concurrency = config.reqConcurrency
    /\ processData = "none"
    /\ updateProgress = FALSE
    /\ formatUrl = "none"
    /\ i = 0
    /\ urlBatch = <<>>
    /\ promises = <<>>
    /\ reqResults = <<>>
    /\ final = <<>>
    /\ pc = "idle"
    /\ ret = NoReturn
    /\ req = <<>>
    /\ batches = <<>>
    /\ progress = <<>>
    /\ reduceCalls = 0
    /\ outOfOrder = FALSE
    /\ writes = <<>>
    /\ files = <<>>
    /\ dirExists = FALSE
    /\ entry = 0
    /\ run = 0
    /\ mpc = "idle"
    /\ listReq = NoRequest
    /\ existed = FALSE
    /\ prev = "none"
    /\ variant = 1
    /\ value = Undefined
    /\ decoded = NoDecode

MainNext ==
    \/ Start
    \/ ListSettle
    \/ AfterList
    \/ MainSettle
    \/ BatchFulfilled
    \/ BatchRejected
    \/ AfterFilter
    \/ AfterDownload
    \/ WriteSettle
    \/ AfterWrites

SpecMain == MainInit /\ [][MainNext]_vars

\* ------------------------------------------------- the codec on its own

\* What a key of a served object may hold; Undefined stands for no key
LanguageValues == {Undefined, JString(Str("pol")), JString(Str("eng")),
                   JString(Str("POL")), JNumber(1), JNull}

ChildrenValues == {Undefined, JArray(<<>>), JArray(<<JString(Str("child"))>>),
                   JArray(<<JNumber(1)>>), JString(Str("child")), JNull}

TxtValues == {Undefined, JString(<<"media", "X.txt">>), JString(Str("")),
              JNumber(1), JArray(<<>>)}

TitleValues == {Undefined, JString(Str("Pan Tadeusz"))}

\* The object with the keys whose value is given
ObjectOf(language, children, txt, title) ==
    LET val == [language |-> language, children |-> children,
                txt |-> txt, title |-> title]
    IN  JObject([f \in {g \in DOMAIN val : val[g] # Undefined} |-> val[f]])

\* The values the codec is tried on: every such object, and values that are
\* no object
DetailValues ==
    {ObjectOf(l, c, x, t) : l \in LanguageValues, c \in ChildrenValues,
                            x \in TxtValues, t \in TitleValues}
    \cup {JNull, JString(Str("pol")), JArray(<<>>), JNumber(1)}

CodecInit ==
    /\ value \in DetailValues
    /\ decoded = NoDecode
    /\ urls = <<>>
    /\ concurrency = config.reqConcurrency
    /\ processData = "none"
    /\ updateProgress = FALSE
    /\ formatUrl = "none"
    /\ i = 0
    /\ urlBatch = <<>>
    /\ promises = <<>>
    /\ reqResults = <<>>
    /\ final = <<>>
    /\ pc = "idle"
    /\ ret = NoReturn
    /\ req = <<>>
    /\ batches = <<>>
    /\ progress = <<>>
    /\ reduceCalls = 0
    /\ outOfOrder = FALSE
    /\ writes = <<>>
    /\ files = <<>>
    /\ dirExists = FALSE
    /\ entry = 0
    /\ run = 0
    /\ mpc = "none"
    /\ listReq = NoRequest
    /\ existed = FALSE
    /\ prev = "none"
    /\ variant = 1

\* TextDetailCodec.decode(textDetailObj)
Decode ==
    /\ decoded = NoDecode
    /\ decoded' = TextDetailCodec(value)
    /\ UNCHANGED <<value, fetchVars, fsVars, mainVars, runVars, variant>>

CodecNext == Decode

SpecCodec == CodecInit /\ [][CodecNext]_vars

\* ------------------------------------------------------------- properties

\* The requests of the call that are in flight
InFlight == {k \in DOMAIN req : req[k].status = "pending"}

\* ceil(n / c)
CeilDiv(n, c) == (n + c - 1) \div c

\* The positions 1..n in order
Positions(n) == [k \in 1..n |-> k]

RECURSIVE Concat(_)
Concat(seqs) == IF seqs = <<>> THEN <<>> ELSE Head(seqs) \o Concat(Tail(seqs))

RECURSIVE Sum(_)
Sum(seq) == IF seq = <<>> THEN 0 ELSE Head(seq) + Sum(Tail(seq))

\* The request issued for the target at position k
RequestFor(k) == req[CHOOSE j \in DOMAIN req : req[j].pos = k]

\* The shape the detail codec is to accept, read off the value itself
HasStringTxt(u) == u.kind = "object" /\ "txt" \in DOMAIN u.v /\ u.v.txt.kind = "string"

HasNoChildren(u) ==
    /\ u.kind = "object"
    /\ "children" \in DOMAIN u.v
    /\ u.v.children.kind = "array"
    /\ u.v.children.v = <<>>

HasLanguage(u) ==
    /\ u.kind = "object"
    /\ "language" \in DOMAIN u.v
    /\ u.v.language = JString(Str("pol"))

ShapeOk(u) == HasStringTxt(u) /\ HasNoChildren(u) /\ HasLanguage(u)

\* C1: at every moment the requests a call has issued and that have not
\* settled are at most `concurrency` many.
C1_InFlightWithinConcurrency == Cardinality(InFlight) <= concurrency

\* C1 witness: a second batch is in flight in full, two requests at once.
C1_Witness ==
    /\ Len(batches) >= 2
    /\ concurrency >= 2
    /\ Cardinality(InFlight) = concurrency

\* C2: a step that issues requests finds every request issued before it
\* settled: batch N+1 is not started while a request of batch N is in flight.
C2_BatchesInSequence ==
    [][Len(req') > Len(req) => \A k \in DOMAIN req : req[k].status # "pending"]_vars

\* C2 witness: a second batch has been issued and is in flight.
C2_Witness ==
    /\ Len(batches) >= 2
    /\ Len(batches[1]) >= 2
    /\ InFlight # {}

\* C3: once a request of the call has failed, the call cannot return an
\* accumulator, its way on is to fail, no request of a later batch is ever
\* issued, and the failed call has thrown and returned nothing.
C3_FailureFailsCall ==
    /\ \A k \in DOMAIN req : req[k].status = "rejected" =>
        /\ pc \in {"await", "failed"}
        /\ ret.kind # "return"
        /\ pc = "await" => (ENABLED BatchRejected /\ ~ENABLED BatchFulfilled)
        /\ \E x \in DOMAIN batches[Len(batches)] :
             batches[Len(batches)][x] = req[k].pos
    /\ pc = "failed" => ret = [kind |-> "throw"] /\ final = <<>>

\* C3 witness: the call failed in its second batch, by a timeout, with a
\* third batch never issued.
C3_Witness ==
    /\ pc = "failed"
    /\ Len(batches) = 2
    /\ Len(req) < Len(urls)
    /\ \E k \in DOMAIN req : req[k].error = "ECONNABORTED"

\* C4: without a reduction function a successful call returns, for every
\* position of urls, the body of the request made for that target, in the
\* order of urls.
C4_RawBodiesInOrder ==
    (pc = "done" /\ processData = "none") =>
        /\ ret = [kind |-> "return", v |-> final]
        /\ Len(final) = Len(urls)
        /\ \A k \in 1..Len(urls) :
            /\ \E j \in DOMAIN req : req[j].pos = k
            /\ RequestFor(k).url = RequestUrl(formatUrl, urls[k])
            /\ final[k] = RequestFor(k).data

\* C4 witness: two batches, requests settled out of order, different bodies.
C4_Witness ==
    /\ pc = "done"
    /\ processData = "none"
    /\ outOfOrder
    /\ Len(batches) >= 2
    /\ Len(final) >= 3
    /\ final[1] # final[2]
    /\ final[2] # final[3]

\* The txt of the responses that have the detail shape, in the order of urls
AcceptedTxt ==
    LET bodies  == [k \in 1..Len(urls) |-> RequestFor(k).data]
        passing == SelectSeq(bodies, ShapeOk)
    IN  [j \in 1..Len(passing) |-> passing[j].v.txt]

\* C5: the filtering call returns the txt of exactly the works whose detail
\* response has the shape, in the order of the works list, so at most one
\* value per slug.
C5_FilterKeepsValidInOrder ==
    (pc = "done" /\ processData = "filter") =>
        /\ ret = [kind |-> "return", v |-> final]
        /\ final = AcceptedTxt
        /\ Len(final) <= Len(urls)
        /\ reduceCalls = Len(urls)

\* C5 witness: slugs a, b, c with concurrency 2, only b a collection: the
\* txt of a then of c, after a batch of 2 and a batch of 1.
C5_Witness ==
    /\ pc = "done"
    /\ processData = "filter"
    /\ formatUrl = "book"
    /\ urls = <<JString(Str("a")), JString(Str("b")), JString(Str("c"))>>
    /\ concurrency = 2
    /\ batches = <<(<<1, 2>>), (<<3>>)>>
    /\ ~HasNoChildren(RequestFor(2).data)
    /\ final = <<JString(<<"media", "X.txt">>), JString(<<"media", "Z.txt">>)>>

\* C6: a successful call on n >= 1 targets with concurrency c has taken
\* ceil(n / c) batches, consecutive slices that cover the positions once and
\* in order; each but the last has c targets; with c >= n there is one batch.
C6_BatchPartition ==
    (pc = "done" /\ Len(urls) > 0) =>
        /\ Len(batches) = CeilDiv(Len(urls), concurrency)
        /\ Concat(batches) = Positions(Len(urls))
        /\ [k \in DOMAIN req |-> req[k].pos] = Positions(Len(urls))
        /\ \A b \in 1..(Len(batches) - 1) : Len(batches[b]) = concurrency
        /\ Len(batches[Len(batches)]) \in 1..concurrency
        /\ concurrency >= Len(urls) => Len(batches) = 1

\* C6 witness: five targets by twos are three batches, the last of one.
C6_Witness ==
    /\ pc = "done"
    /\ Len(urls) = 5
    /\ concurrency = 2
    /\ batches = <<(<<1, 2>>), (<<3, 4>>), (<<5>>)>>

\* C7: with a progress callback a successful call has called it once per
\* batch with the batch's size: ceil(n / c) calls whose amounts add up to n.
C7_ProgressPerBatch ==
    (pc = "done" /\ updateProgress) =>
        /\ progress = [b \in 1..Len(batches) |-> Len(batches[b])]
        /\ Len(progress) = CeilDiv(Len(urls), concurrency)
        /\ Sum(progress) = Len(urls)

\* C7 witness: five targets by twos report 2, 2, 1.
C7_Witness ==
    /\ pc = "done"
    /\ updateProgress
    /\ Len(urls) = 5
    /\ progress = <<2, 2, 1>>

\* C8: called with no targets, with or without a reduction function, the
\* call returns an empty accumulator and has issued no request, reported no
\* progress and run no reduction.
C8_EmptyTargets ==
    (Len(urls) = 0 /\ pc # "idle") =>
        /\ pc = "done"
        /\ ret = [kind |-> "return", v |-> <<>>]
        /\ final = <<>>
        /\ req = <<>>
        /\ batches = <<>>
        /\ progress = <<>>
        /\ reduceCalls = 0

\* C8 witness: the call with no targets, a reduction function and a
\* progress callback has returned.
C8_Witness ==
    /\ Len(urls) = 0
    /\ pc = "done"
    /\ processData = "filter"
    /\ updateProgress

\* C9: the detail codec accepts a value exactly when it has a string txt, an
\* empty children list and the configured language, and hands an accepted
\* value's language, children and txt back as they were.
C9_DetailAllOrNothing ==
    decoded # NoDecode =>
        /\ (decoded._tag = "Right") = ShapeOk(value)
        /\ (decoded._tag = "Left") = ~ShapeOk(value)
        /\ ShapeOk(value) =>
            /\ Get(decoded.right, "language") = value.v.language
            /\ Get(decoded.right, "children") = value.v.children
            /\ Get(decoded.right, "txt") = value.v.txt

\* C9 witness: a value with the three fields right, and one more, is accepted.
C9_Witness ==
    /\ decoded # NoDecode
    /\ decoded._tag = "Right"
    /\ Get(decoded.right, "title") # Undefined

\* A works list has the shape when it is a list of objects with a string slug
ListShapeOk(u) ==
    /\ u.kind = "array"
    /\ \A k \in DOMAIN u.v :
        /\ u.v[k].kind = "object"
        /\ "slug" \in DOMAIN u.v[k].v
        /\ u.v[k].v.slug.kind = "string"

\* The list request was answered with a list that has not the shape, and
\* the program has gone on from there
BadListSeen ==
    /\ listReq.status = "fulfilled"
    /\ ~ListShapeOk(listReq.data)
    /\ mpc # "awaitList"

\* C10: a works list that fails validation fails the run: no detail request
\* and no download is issued, no file write is started.
C10_BadListFailsRun ==
    BadListSeen =>
        /\ mpc = "failed"
        /\ pc = "idle"
        /\ req = <<>>
        /\ writes = <<>>

\* C10 witness: entry 1 or 2 has made the directory, got a list with an entry
\* that has no slug, and failed.
C10_Witness ==
    /\ BadListSeen
    /\ entry \in {1, 2}
    /\ dirExists
    /\ listReq.data.kind = "array"
    /\ mpc = "failed"

\* ---------------------------------------------------------------- C11, C19
\* Requests of the running program: the list request and those of the calls
NoRequests == listReq = NoRequest /\ req = <<>>

\* C11 as stated: a run started against an existing output directory makes
\* no request and starts no file write, whichever entry point is run.
C11_NoOpForEveryEntry ==
    (run >= 1 /\ existed) => (NoRequests /\ writes = <<>>)

\* C11: a run of entry point 1 or 2 started against an existing output
\* directory is over at once, with no request made and no file write
\* started; entry point 3 never looks at the directory: it requests the
\* works list in every run, but makes no other request and writes no file.
C11_NoOpWhenDirExists ==
    /\ (run >= 1 /\ existed /\ entry \in {1, 2}) =>
            (mpc = "done" /\ NoRequests /\ writes = <<>>)
    /\ (run >= 1 /\ entry = 3) =>
            (listReq # NoRequest /\ req = <<>> /\ writes = <<>> /\ dirExists = existed)

\* the second run of entry 1 or 2, after a run that wrote its files
C11_Witness ==
    /\ run = 2 /\ existed /\ entry \in {1, 2}
    /\ prev = "done" /\ DOMAIN files # {}
    /\ mpc = "done" /\ NoRequests

\* -------------------------------------------------------------------- C12
\* The file name of the k-th URL of the download call
FileOf(k) == Pop(urls[k].v)

\* C12 as stated: when a run has written its files and is done, the output
\* directory holds one file per URL of the filtered list, each named by the
\* last segment of its URL and holding the body downloaded from that URL,
\* also when two URLs of the list end in the same segment.
C12_OneFilePerWork ==
    (mpc = "done" /\ processData = "write" /\ pc = "done") =>
        /\ Cardinality(DOMAIN files) = Len(urls)
        /\ \A k \in DOMAIN urls :
            /\ FileOf(k) \in DOMAIN files
            /\ files[FileOf(k)] = RequestFor(k).data

\* -------------------------------------------------------------------- C13
\* The positions of the batch issued last
LastBatch == {batches[Len(batches)][x] : x \in DOMAIN batches[Len(batches)]}

\* C13 as stated: when the call is over, by returning or by failing, none
\* of its requests is in flight.
C13_NothingInFlightWhenOver ==
    pc \in {"done", "failed"} => InFlight = {}

\* C13: when the call returns, none of its requests is in flight, and the
\* join of a batch is fulfilled only when every request of the batch is;
\* when the call fails, Promise.all has rejected at the first rejection:
\* the requests still in flight are requests of the failing batch, the last
\* one issued, and every request of the batches before it is fulfilled.
C13_NoDetachedWorkOnReturn ==
    /\ pc = "done" => InFlight = {}
    /\ (pc = "await" /\ AllFulfilled(promises, req)) => InFlight = {}
    /\ pc = "failed" =>
        /\ \E k \in DOMAIN req : req[k].status = "rejected" /\ req[k].pos \in LastBatch
        /\ \A k \in DOMAIN req :
            \/ req[k].status = "fulfilled"
            \/ req[k].pos \in LastBatch

\* C13 witness: the call has failed in its second batch while another
\* request of that batch is still in flight.
C13_Witness ==
    /\ pc = "failed"
    /\ Len(batches) >= 2
    /\ InFlight # {}

\* -------------------------------------------------------------------- C14
\* C14 as stated: the documented call makeConcurrentHttpsReqs(slugs, 5,
\* undefined, formatter) requests formatter(slug) for every target and
\* returns the raw bodies in the order of the targets, with either
\* definition that carries the example; nothing else is done with the
\* formatter.
C14_DocExampleFormatsUrls ==
    pc # "idle" =>
        /\ \A k \in DOMAIN req : req[k].url = FormatExampleUrl(urls[req[k].pos])
        /\ progress = <<>>
        /\ pc = "done" =>
            /\ Len(final) = Len(urls)
            /\ \A k \in DOMAIN urls : final[k] = RequestFor(k).data

\* -------------------------------------------------------------------- C15
\* C15: the accumulator is empty, the reduction function has not run and no
\* file write is started until the call returns, and then every request of
\* every batch has been issued and is fulfilled and none is in flight; a
\* failed call has run the reduction function zero times and started no
\* write.
C15_FoldAfterAllBatches ==
    /\ (reduceCalls > 0 \/ final # <<>> \/ writes # <<>>) =>
        /\ pc = "done"
        /\ InFlight = {}
        /\ Len(req) = Len(urls)
        /\ \A k \in DOMAIN req : req[k].status = "fulfilled"
    /\ pc = "failed" => (reduceCalls = 0 /\ final = <<>> /\ writes = <<>>)

\* C15 witness: a download call of three batches has returned and its
\* reduction function has started a write for every response.
C15_Witness ==
    /\ pc = "done"
    /\ processData = "write"
    /\ Len(batches) >= 3
    /\ reduceCalls = Len(urls)
    /\ Len(writes) = Len(urls)

\* -------------------------------------------------------------------- C16
\* The requests of the call that have succeeded
Succeeded == {k \in DOMAIN req : req[k].status = "fulfilled"}

\* The batch b has been issued and every request of it has succeeded
BatchSucceeded(b) ==
    /\ b \in DOMAIN batches
    /\ \A x \in DOMAIN batches[b] :
        \E k \in Succeeded : req[k].pos = batches[b][x]

\* C16: the progress callback has been called for batch k, with the batch's
\* size, only when every request of batch k has succeeded; batch k+1 is
\* issued only when batch k has been reported; the batch being awaited and a
\* batch with a failed request are not reported; so the increments reported
\* add up to no more than the number of requests that have succeeded.
C16_ProgressAfterBatch ==
    /\ \A b \in DOMAIN progress :
        BatchSucceeded(b) /\ progress[b] = Len(batches[b])
    /\ updateProgress =>
        /\ pc \in {"await", "failed"} => Len(progress) = Len(batches) - 1
        /\ pc = "done" => Len(progress) = Len(batches)
    /\ ~updateProgress => progress = <<>>
    /\ Sum(progress) <= Cardinality(Succeeded)

\* C16 witness: the first batch was reported, the second has failed with
\* one of its requests fulfilled, and less is reported than has succeeded.
C16_Witness ==
    /\ updateProgress
    /\ pc = "failed"
    /\ progress = <<2>>
    /\ Len(batches) = 2
    /\ Sum(progress) < Cardinality(Succeeded)

\* -------------------------------------------------------------------- C17
\* The positions of urls a request has been issued for
IssuedPositions == {req[k].pos : k \in DOMAIN req}

\* C17: no two requests of a call are for the same position of urls; when
\* the call returns, one request has been issued for every position and the
\* responses are kept in the order of urls; the reduction function has then
\* run once per response, in that order: the download call's k-th write is
\* that of the k-th response, the filtering call's result keeps the order.
C17_NoRetry ==
    /\ \A j, k \in DOMAIN req : req[j].pos = req[k].pos => j = k
    /\ IssuedPositions \subseteq 1..Len(urls)
    /\ pc = "done" =>
        /\ IssuedPositions = 1..Len(urls)
        /\ Len(req) = Len(urls)
        /\ reqResults = [k \in 1..Len(urls) |-> Response(RequestFor(k))]
        /\ reduceCalls = Len(urls)
        /\ processData = "write" =>
            writes = [k \in 1..Len(urls) |->
                        [name |-> Pop(RequestFor(k).url.v),
                         data |-> RequestFor(k).data,
                         status |-> "pending"]]
        /\ processData = "filter" => final = AcceptedTxt

\* C17 witness: a filtering call on five targets, the first three repeated
\* as the last two, has returned after three batches: five requests, five
\* runs of the reduction function, fewer than five values kept.
C17_Witness ==
    /\ pc = "done"
    /\ processData = "filter"
    /\ Len(urls) = 5
    /\ Len(batches) = 3
    /\ Len(req) = 5
    /\ reduceCalls = 5
    /\ Len(final) < 5

\* -------------------------------------------------------------------- C18
\* C18: with every request settling in the end, a call on a finite list
\* with concurrency >= 1 is over in the end, returning or failing; no batch
\* is empty, and whenever the index moves it moves on by concurrency.
C18_Terminates ==
    /\ <>(pc \in {"done", "failed"})
    /\ [](concurrency >= 1 /\ \A b \in DOMAIN batches : batches[b] # <<>>)
    /\ [][i' # i => i' = i + concurrency]_vars

\* C18 witness: five targets by twos: the index has moved from 0 to 2, 4
\* and 6, and the call has returned after three batches.
C18_Witness ==
    /\ pc = "done"
    /\ Len(urls) = 5
    /\ concurrency = 2
    /\ i = 6
    /\ Len(batches) = 3
    /\ ret.kind = "return"

\* -------------------------------------------------------------------- C19
\* A run of one of the two archiving entry points
Archiving == run >= 1 /\ entry \in {1, 2}

\* C19: in a run of entry 1 or 2 the output directory exists from the start
\* of the run, before the first request; no step removes it, whatever the
\* run fails at; a run that finds it is done at once with no request and no
\* write, and from then on the files are what the earlier run left.
C19_DirectoryStays ==
    /\ [](Archiving => dirExists)
    /\ []((listReq # NoRequest \/ req # <<>> \/ writes # <<>>) /\ entry \in {1, 2}
            => (dirExists /\ ~existed))
    /\ [][dirExists => dirExists']_vars
    /\ []((Archiving /\ existed) => (mpc = "done" /\ NoRequests /\ writes = <<>>))
    /\ [][existed' => files' = files]_vars

\* C19 witness: the run before failed after the directory was made, leaving
\* fewer files than works; this run of entry 1 or 2 found the directory and
\* is done without a request.
C19_Witness ==
    /\ run = 2
    /\ prev = "failed"
    /\ existed
    /\ entry \in {1, 2}
    /\ mpc = "done"
    /\ NoRequests
    /\ DOMAIN files = {}

====
